---- MODULE Spec2Model ----
(***************************************************************************)
(* Model of gwionrob/fpl-auto-message: the two working implementations of  *)
(* the league report (class League in league.py, class FetchData and the   *)
(* command-line loop in fetch_fpl.py).                                     *)
(*                                                                         *)
(* Python values are modelled as follows.  A str that the code parses or   *)
(* builds is a sequence of one-character strings.  A call either returns   *)
(* or raises: [ok |-> TRUE, val |-> v] or [ok |-> FALSE, exc |-> name].    *)
(* A dict value is a tagged Python value [t, i, s]: an int, a str, or      *)
(* "absent" while the dict lacks the key.  An upstream HTTP response is a  *)
(* record [kind, ...]: kind "timeout" (requests raises), "notjson"         *)
(* (json.loads raises JSONDecodeError), "nokey" (a JSON body without the   *)
(* key the code subscripts, KeyError) or "json" (the documented body).     *)
(***************************************************************************)
EXTENDS Integers, Sequences, FiniteSets, TLC

VARIABLES pc, call, league_id, prompts, attempts, printed, invalid_msgs,
          roster, gameweek_dates_for_month, player_info, idx, calls,
          result, error, arg, ret

vars == <<pc, call, league_id, prompts, attempts, printed, invalid_msgs,
          roster, gameweek_dates_for_month, player_info, idx, calls,
          result, error, arg, ret>>

(***************************************************************************)
(* Bounds of the model.                                                    *)
(***************************************************************************)
MaxRoster == 2
MaxLimit == 3
MaxAttempts == 2
NumGameweeks == 3
MaxHistory == 2

(***************************************************************************)
(* Constants of the program.                                               *)
(***************************************************************************)
CliPosition == 10
CliMonth == 11
CliYear == 2022

(***************************************************************************)
(* Python built-ins.                                                       *)
(***************************************************************************)
Ret(v) == [ok |-> TRUE, exc |-> "", val |-> v]

Raise(e) == [ok |-> FALSE, exc |-> e, val |-> 0]

Min(a, b) == IF a <= b THEN a ELSE b

\* s[:n] for n >= 0
Take(s, n) == SubSeq(s, 1, Min(n, Len(s)))

DigitChars == <<"0", "1", "2", "3", "4", "5", "6", "7", "8", "9">>

IsDigit(c) == \E d \in 1..10 : DigitChars[d] = c

DigitVal(c) == (CHOOSE d \in 1..10 : DigitChars[d] = c) - 1

RECURSIVE NatToStr(_)
NatToStr(n) ==
    IF n < 10 THEN <<DigitChars[n + 1]>>
    ELSE NatToStr(n \div 10) \o <<DigitChars[(n % 10) + 1]>>

\* str(n) for an int n
IntToStr(n) == IF n < 0 THEN <<"-">> \o NatToStr(-n) ELSE NatToStr(n)

RECURSIVE DigitsToNat(_)
DigitsToNat(s) ==
    IF s = <<>> THEN 0
    ELSE 10 * DigitsToNat(SubSeq(s, 1, Len(s) - 1)) + DigitVal(s[Len(s)])

AllDigits(s) == s # <<>> /\ \A k \in 1..Len(s) : IsDigit(s[k])

\* int(s) for a str s: an optional sign, then decimal digits
StrToInt(s) ==
    IF s # <<>> /\ s[1] = "-" /\ AllDigits(Tail(s)) THEN Ret(-DigitsToNat(Tail(s)))
    ELSE IF AllDigits(s) THEN Ret(DigitsToNat(s))
    ELSE Raise("ValueError")

\* An argument typed Union[int, str]
PyInt(n) == [t |-> "int", i |-> n, s |-> <<>>]

PyStr(s) == [t |-> "str", i |-> 0, s |-> s]

\* int(x) for such an argument
ToInt(x) == IF x.t = "int" THEN Ret(x.i) ELSE StrToInt(x.s)

RECURSIVE SumSeq(_)
\* sum(list)
SumSeq(s) == IF s = <<>> THEN 0 ELSE SumSeq(SubSeq(s, 1, Len(s) - 1)) + s[Len(s)]

\* x in list
InList(x, s) == \E k \in 1..Len(s) : s[k] = x

RECURSIVE SelectSeqIdx(_, _, _)
\* [k for k in range(from, len(keep) + 1) if keep[k]]
SelectSeqIdx(keep, from, acc) ==
    IF from > Len(keep) THEN acc
    ELSE SelectSeqIdx(keep, from + 1, IF keep[from] THEN Append(acc, from) ELSE acc)

\* the lookup done by name instead of by the whole dict
ListIndexByName(s, x) ==
    CHOOSE k \in 1..Len(s) :
        /\ s[k].player_name = x.player_name
        /\ \A j \in 1..(k - 1) : s[j].player_name # x.player_name

\* list.index(x): the position (1-based here) of the first element equal to x
ListIndex(s, x) == CHOOSE k \in 1..Len(s) : s[k] = x /\ \A j \in 1..(k - 1) : s[j] # x

RECURSIVE InsertDesc(_, _, _)
\* position x put into sorted (a list of positions), after every position whose key is >= key[x]
InsertDesc(sorted, x, key) ==
    IF sorted = <<>> THEN <<x>>
    ELSE IF key[Head(sorted)] >= key[x] THEN <<Head(sorted)>> \o InsertDesc(Tail(sorted), x, key)
    ELSE <<x>> \o sorted

RECURSIVE SortedIdx(_, _)
\* the positions 1..n of a list in the order sorted(..., reverse=True) puts them, key[k]
\* being the key of position k: descending and stable (equal keys keep their order)
SortedIdx(n, key) ==
    IF n = 0 THEN <<>> ELSE InsertDesc(SortedIdx(n - 1, key), n, key)

\* sorted(s, key=lambda d: key[position of d], reverse=True)
SortedDesc(s, key) == [k \in 1..Len(s) |-> s[SortedIdx(Len(s), key)[k]]]

Absent == [t |-> "absent", i |-> 0, s |-> <<>>]

(***************************************************************************)
(* Upstream responses.                                                     *)
(***************************************************************************)
Timeout == [kind |-> "timeout", league_name |-> "", rows |-> <<>>]

NotJson == [kind |-> "notjson", league_name |-> "", rows |-> <<>>]

NoKey == [kind |-> "nokey", league_name |-> "", rows |-> <<>>]

\* requests.get, .text, json.loads and the first subscripts, as every method starts
FetchError(body) ==
    IF body.kind = "timeout" THEN "Timeout"
    ELSE IF body.kind = "notjson" THEN "JSONDecodeError"
    ELSE IF body.kind = "nokey" THEN "KeyError"
    ELSE ""

(***************************************************************************)
(* get_gameweek_points: body.rows is data_json["current"], a list of       *)
(* [event, points, total_points].                                          *)
(***************************************************************************)
\* the empty list taken for "no filter"
NoFilterEmpty == <<>>

\* the default of `gameweek`, meaning "no filter"
NoFilter == <<0>>

\* the filter dropped: every record's points
PointsOfAll(all_gameweek_results, gameweek) ==
    [k \in 1..Len(all_gameweek_results) |-> all_gameweek_results[k].points]

\* [int(e["points"]) for e in all_gameweek_results if e["event"] in gameweek]
PointsOfMatching(all_gameweek_results, gameweek) ==
    LET keep == [k \in 1..Len(all_gameweek_results) |->
                    InList(all_gameweek_results[k].event, gameweek)]
        at == SelectSeqIdx(keep, 1, <<>>)
    IN  [k \in 1..Len(at) |-> all_gameweek_results[at[k]].points]

get_gameweek_points(body, gameweek) ==
    IF FetchError(body) # "" THEN Raise(FetchError(body))
    ELSE LET all_gameweek_results == body.rows
         IN  IF gameweek = NoFilter
             THEN IF all_gameweek_results = <<>> THEN Raise("IndexError")
                  ELSE Ret(all_gameweek_results[Len(all_gameweek_results)].total_points)
             ELSE Ret(SumSeq(PointsOfMatching(all_gameweek_results, gameweek)))

(***************************************************************************)
(* get_gameweeks_for_month: body.rows is data_json["events"], a list of    *)
(* deadline_time strings "YYYY-MM-DD" (the time of day does not matter to  *)
(* .month and .year, and isoparse converts no time zone).                  *)
(***************************************************************************)
IsIsoDate(d) ==
    /\ Len(d) = 10
    /\ \A k \in {1, 2, 3, 4, 6, 7, 9, 10} : IsDigit(d[k])
    /\ d[5] = "-" /\ d[8] = "-"
    /\ DigitsToNat(SubSeq(d, 6, 7)) \in 1..12
    /\ DigitsToNat(SubSeq(d, 9, 10)) \in 1..31

\* isoparse(d), for a d that IsIsoDate
isoparse(d) == [year |-> DigitsToNat(SubSeq(d, 1, 4)), month |-> DigitsToNat(SubSeq(d, 6, 7))]

\* the year not compared
gameweeks_matching_month_only(dates, m, y) ==
    SelectSeqIdx([k \in 1..Len(dates) |-> dates[k].month = m], 1, <<>>)

\* the keys k of dates_dict (k = position, from 1) with v.month == m and v.year == y
gameweeks_matching(dates, m, y) ==
    SelectSeqIdx([k \in 1..Len(dates) |-> dates[k].month = m /\ dates[k].year = y], 1, <<>>)

get_gameweeks_for_month(body, month, year) ==
    IF FetchError(body) # "" THEN Raise(FetchError(body))
    ELSE LET events_full == body.rows
         IN  IF \E k \in 1..Len(events_full) : ~IsIsoDate(events_full[k]) THEN Raise("ValueError")
             ELSE LET dates == [k \in 1..Len(events_full) |-> isoparse(events_full[k])]
                      m == ToInt(month)
                      y == ToInt(year)
                  IN  \* the condition runs once per gameweek: int(month) for each, and
                      \* int(year) only for a gameweek whose month matches
                      IF dates = <<>> THEN Ret(<<>>)
                      ELSE IF ~m.ok THEN Raise("ValueError")
                      ELSE IF ~y.ok /\ \E k \in 1..Len(dates) : dates[k].month = m.val
                           THEN Raise("ValueError")
                      ELSE Ret(gameweeks_matching(dates, m.val, y.val))

(***************************************************************************)
(* get_players_in_league: body.rows is data_json["standings"]["results"],  *)
(* a list of [rank, player_name, entry_name, entry, total].                *)
(***************************************************************************)
player_info_of(player, league_name) ==
    [entry |-> player.entry, player_name |-> player.player_name,
     entry_name |-> player.entry_name, league_name |-> league_name,
     month_points |-> Absent, rank |-> Absent]

get_players_in_league(body) ==
    IF FetchError(body) # "" THEN Raise(FetchError(body))
    ELSE Ret([k \in 1..Len(body.rows) |-> player_info_of(body.rows[k], body.league_name)])

(***************************************************************************)
(* get_league_standings, whole.                                            *)
(***************************************************************************)
League_get_league_standings(body, position) ==
    IF FetchError(body) # "" THEN Raise(FetchError(body))
    ELSE LET standings_full == Take(body.rows, position)
         IN  Ret([k \in 1..Len(standings_full) |->
                    [rank |-> PyInt(standings_full[k].rank),
                     player_name |-> standings_full[k].player_name,
                     entry_name |-> standings_full[k].entry_name,
                     score |-> PyInt(standings_full[k].total)]])

FetchData_get_league_standings(body, position) ==
    IF FetchError(body) # "" THEN Raise(FetchError(body))
    ELSE LET standings == [k \in 1..Len(body.rows) |->
                              [rank |-> PyStr(IntToStr(body.rows[k].rank)),
                               player_name |-> body.rows[k].player_name,
                               entry_name |-> body.rows[k].entry_name,
                               score |-> PyStr(IntToStr(body.rows[k].total))]]
         IN  Ret([title |-> body.league_name, lines |-> Take(standings, position)])

(***************************************************************************)
(* get_manager_of_the_month after its fetches: the sort, the ranks and the *)
(* result.                                                                 *)
(***************************************************************************)
RECURSIVE League_assign_ranks(_, _)
\* for _info in player_info: _info["rank"] = player_info.index(_info) + 1
League_assign_ranks(infos, k) ==
    IF k > Len(infos) THEN infos
    ELSE League_assign_ranks(
             [infos EXCEPT ![k].rank = PyInt(ListIndex(infos, infos[k]))], k + 1)

League_sort_and_rank(infos) ==
    LET sorted == SortedDesc(infos, [k \in 1..Len(infos) |-> infos[k].month_points.i])
        ranked == League_assign_ranks(sorted, 1)
    IN  [player_info |-> ranked,
         ret |-> Ret([k \in 1..Len(ranked) |->
                        [rank |-> ranked[k].rank, player_name |-> ranked[k].player_name,
                         entry_name |-> ranked[k].entry_name,
                         score |-> ranked[k].month_points]])]

FetchData_sort_and_format(infos, position) ==
    LET sorted == SortedDesc(infos,
                      [k \in 1..Len(infos) |-> StrToInt(infos[k].month_points.s).val])
        standings == [k \in 1..Len(sorted) |->
                         [rank |-> PyStr(IntToStr(ListIndex(sorted, sorted[k]))),
                          player_name |-> sorted[k].player_name,
                          entry_name |-> sorted[k].entry_name,
                          score |-> sorted[k].month_points]]
    IN  [player_info |-> sorted,
         ret |-> IF sorted = <<>> THEN Raise("IndexError")
                 ELSE Ret([title |-> sorted[1].league_name,
                           lines |-> Take(standings, position)])]

(***************************************************************************)
(* What the upstream may answer.                                           *)
(***************************************************************************)
Json(rows) == [kind |-> "json", league_name |-> "", rows |-> rows]

SeqsUpTo(S, n) == UNION {[1..k -> S] : k \in 0..n}

PointValues == {-1, 0, 2}

RECURSIVE RunningTotal(_, _)
RunningTotal(h, k) == IF k = 0 THEN 0 ELSE RunningTotal(h, k - 1) + h[k].points

\* a manager's history: one record per gameweek played, total_points the points so far
HistoryRows(h) ==
    [k \in 1..Len(h) |->
        [event |-> h[k].event, points |-> h[k].points, total_points |-> RunningTotal(h, k)]]

Histories == {HistoryRows(h) : h \in SeqsUpTo([event : 1..NumGameweeks, points : PointValues], MaxHistory)}

HistoryBodies == {Timeout, NotJson, NoKey} \cup {Json(h) : h \in Histories}

RECURSIVE AscList(_)
\* the ids of a set of gameweeks, ascending
AscList(S) ==
    IF S = {} THEN <<>>
    ELSE LET m == CHOOSE x \in S : \A z \in S : z <= x IN Append(AscList(S \ {m}), m)

Filters == {NoFilter} \cup {AscList(S) : S \in SUBSET (1..NumGameweeks)}

Pad2(n) == IF n < 10 THEN <<"0">> \o NatToStr(n) ELSE NatToStr(n)

IsoDate(y, m, d) == NatToStr(y) \o <<"-">> \o Pad2(m) \o <<"-">> \o Pad2(d)

\* deadline_time null is formatted "None"
NoneText == <<"N", "o", "n", "e">>

Deadlines == {IsoDate(2022, 10, 29), IsoDate(2022, 11, 5), IsoDate(2023, 11, 4),
              IsoDate(2023, 4, 1), NoneText}

ScheduleBodies == {Timeout, NotJson, NoKey} \cup {Json(e) : e \in SeqsUpTo(Deadlines, NumGameweeks)}

MonthArgs == {PyInt(10), PyInt(11), PyStr(<<"1", "1">>), PyStr(<<"0", "4">>)}

YearArgs == {PyInt(2022), PyStr(<<"2", "0", "2", "2">>), PyInt(2023)}

(***************************************************************************)
(* The state of a report run at rest.                                      *)
(***************************************************************************)
NoCall == [caller |-> "none", cls |-> "", method |-> "", position |-> 0,
           month |-> Absent, year |-> Absent]

NoError == [exc |-> "", at |-> ""]

RunAtRest ==
    /\ call = NoCall /\ league_id = "" /\ prompts = 0 /\ attempts = 0
    /\ printed = 0 /\ invalid_msgs = 0 /\ roster = <<>>
    /\ gameweek_dates_for_month = <<>> /\ player_info = <<>> /\ idx = 0
    /\ calls = <<>> /\ result = Raise("") /\ error = NoError

RunVars == <<call, league_id, prompts, attempts, printed, invalid_msgs, roster,
             gameweek_dates_for_month, player_info, idx, calls, result, error>>

(***************************************************************************)
(* get_gameweek_points alone, on every history and filter.                 *)
(***************************************************************************)
InitPoints ==
    /\ RunAtRest
    /\ pc = "points"
    /\ arg \in [body : HistoryBodies, gameweek : Filters]
    /\ ret = Raise("")

CallPoints ==
    /\ pc = "points"
    /\ ret' = get_gameweek_points(arg.body, arg.gameweek)
    /\ pc' = "points_done"
    /\ UNCHANGED <<arg, RunVars>>

SpecPoints == InitPoints /\ [][CallPoints]_vars

(***************************************************************************)
(* get_gameweeks_for_month alone, on every schedule, month and year.       *)
(***************************************************************************)
InitCalendar ==
    /\ RunAtRest
    /\ pc = "calendar"
    /\ arg \in [body : ScheduleBodies, month : MonthArgs, year : YearArgs]
    /\ ret = Raise("")

CallCalendar ==
    /\ pc = "calendar"
    /\ ret' = get_gameweeks_for_month(arg.body, arg.month, arg.year)
    /\ pc' = "calendar_done"
    /\ UNCHANGED <<arg, RunVars>>

SpecCalendar == InitCalendar /\ [][CallCalendar]_vars

(***************************************************************************)
(* A report run: a call of get_league_standings or get_manager_of_the_month *)
(* of either class with any position ("api"), or the command-line loop of  *)
(* fetch_fpl.py ("cli").  The upstream answers each request when it is     *)
(* made, and the user answers every input().                               *)
(***************************************************************************)
ValidLeague == "314"

LeagueIds == {ValidLeague, "xyz"}

LeagueName == "Walrus United"

PlayerNames == {"Sam", "Alex"}

Totals == {60, 75}

\* the league table: distinct entries, ranked from 1, totals never increasing
StandingsRows ==
    {r \in SeqsUpTo([entry : 1..MaxRoster, player_name : PlayerNames, total : Totals], MaxRoster) :
        /\ \A j, k \in 1..Len(r) : j # k => r[j].entry # r[k].entry
        /\ \A k \in 1..(Len(r) - 1) : r[k].total >= r[k + 1].total}

StandingsBodies(id) ==
    IF id = ValidLeague
    THEN {Timeout} \cup
         {[kind |-> "json", league_name |-> LeagueName,
           rows |-> [k \in 1..Len(r) |->
                       [rank |-> k, player_name |-> r[k].player_name, entry_name |-> "FC",
                        entry |-> r[k].entry, total |-> r[k].total]]] : r \in StandingsRows}
    ELSE {Timeout, NotJson, NoKey}

RunSchedules ==
    {Timeout, NotJson, NoKey, Json(<<NoneText>>), Json(<<>>),
     Json(<<IsoDate(2022, 10, 29), IsoDate(2022, 11, 5), IsoDate(2022, 11, 12)>>),
     Json(<<IsoDate(2022, 10, 29), IsoDate(2023, 4, 1), IsoDate(2022, 11, 5)>>)}

RunHistories ==
    {Timeout, NotJson, NoKey, Json(<<>>),
     Json(HistoryRows(<<[event |-> 2, points |-> 100]>>)),
     Json(HistoryRows(<<[event |-> 2, points |-> 80], [event |-> 3, points |-> 20]>>)),
     Json(HistoryRows(<<[event |-> 1, points |-> 7], [event |-> 3, points |-> 50]>>)),
     Json(HistoryRows(<<[event |-> 2, points |-> -4]>>))}

CliCall == [caller |-> "cli", cls |-> "FetchData", method |-> "get_manager_of_the_month",
            position |-> CliPosition, month |-> PyInt(CliMonth), year |-> PyInt(CliYear)]

ApiCalls ==
    {[caller |-> "api", cls |-> c, method |-> "get_league_standings", position |-> p,
      month |-> Absent, year |-> Absent] : c \in {"League", "FetchData"}, p \in 0..MaxLimit}
    \cup
    {[caller |-> "api", cls |-> c, method |-> "get_manager_of_the_month", position |-> p,
      month |-> PyStr(<<"1", "1">>), year |-> PyStr(<<"2", "0", "2", "2">>)] :
        c \in {"League", "FetchData"}, p \in 0..MaxLimit}

Init ==
    /\ call \in {CliCall} \cup ApiCalls
    /\ pc = IF call.caller = "cli" THEN "input"
            ELSE IF call.method = "get_league_standings" THEN "standings" ELSE "roster"
    /\ league_id \in IF call.caller = "cli" THEN {""} ELSE LeagueIds
    /\ prompts = 0 /\ attempts = 0 /\ printed = 0 /\ invalid_msgs = 0
    /\ roster = <<>> /\ gameweek_dates_for_month = <<>> /\ player_info = <<>> /\ idx = 0
    /\ calls = <<>> /\ result = Raise("") /\ error = NoError
    /\ arg = 0 /\ ret = Raise("")

Fails(exc, at) ==
    /\ error' = [exc |-> exc, at |-> at]
    /\ pc' = "raised"

\* league_id = input("What is the FPL League ID?\n"), then the first attempt starts
CliInput ==
    /\ pc = "input"
    /\ \E typed \in LeagueIds : league_id' = typed
    /\ prompts' = prompts + 1
    /\ attempts' = attempts + 1
    /\ pc' = "roster"
    /\ UNCHANGED <<call, printed, invalid_msgs, roster, gameweek_dates_for_month,
                   player_info, idx, calls, result, error, arg, ret>>

\* get_league_standings, whole (roster records the table it was given)
CallStandings ==
    /\ pc = "standings"
    /\ \E body \in StandingsBodies(league_id) :
          LET r == IF call.cls = "League" THEN League_get_league_standings(body, call.position)
                   ELSE FetchData_get_league_standings(body, call.position)
          IN  /\ roster' = IF body.kind = "json" THEN get_players_in_league(body).val ELSE <<>>
              /\ IF r.ok THEN result' = r /\ pc' = "returned" /\ error' = error
                 ELSE Fails(r.exc, "roster") /\ result' = result
    /\ calls' = Append(calls, <<"standings", league_id>>)
    /\ UNCHANGED <<call, league_id, prompts, attempts, printed, invalid_msgs,
                   gameweek_dates_for_month, player_info, idx, arg, ret>>

\* player_info = self.get_players_in_league(), cut to [:position] in class League
FetchRoster ==
    /\ pc = "roster"
    /\ \E body \in StandingsBodies(league_id) :
          LET r == get_players_in_league(body)
          IN  IF r.ok
              THEN /\ roster' = r.val
                   /\ player_info' = IF call.cls = "League" THEN Take(r.val, call.position)
                                     ELSE r.val
                   /\ pc' = "schedule"
                   /\ error' = error
              ELSE /\ Fails(r.exc, "roster")
                   /\ UNCHANGED <<roster, player_info>>
    /\ calls' = Append(calls, <<"standings", league_id>>)
    /\ UNCHANGED <<call, league_id, prompts, attempts, printed, invalid_msgs,
                   gameweek_dates_for_month, idx, result, arg, ret>>

\* gameweek_dates_for_month = self.get_gameweeks_for_month(month, year)
FetchSchedule ==
    /\ pc = "schedule"
    /\ \E body \in RunSchedules :
          LET r == get_gameweeks_for_month(body, call.month, call.year)
          IN  IF r.ok
              THEN /\ gameweek_dates_for_month' = r.val
                   /\ idx' = 1
                   /\ pc' = IF player_info = <<>> THEN "sort" ELSE "history"
                   /\ error' = error
              ELSE /\ Fails(r.exc, "schedule")
                   /\ UNCHANGED <<gameweek_dates_for_month, idx>>
    /\ calls' = Append(calls, <<"bootstrap", "">>)
    /\ UNCHANGED <<call, league_id, prompts, attempts, printed, invalid_msgs, roster,
                   player_info, result, arg, ret>>

\* one turn of the loop: _info["month_points"] = get_gameweek_points(_info["entry"], ...),
\* kept as an int in class League and as str(...) in class FetchData
FetchHistory ==
    /\ pc = "history"
    /\ \E body \in RunHistories :
          LET r == get_gameweek_points(body, gameweek_dates_for_month)
          IN  IF r.ok
              THEN /\ player_info' =
                         [player_info EXCEPT ![idx].month_points =
                             IF call.cls = "League" THEN PyInt(r.val)
                             ELSE PyStr(IntToStr(r.val))]
                   /\ idx' = idx + 1
                   /\ pc' = IF idx = Len(player_info) THEN "sort" ELSE "history"
                   /\ error' = error
              ELSE /\ Fails(r.exc, "history")
                   /\ UNCHANGED <<player_info, idx>>
    /\ calls' = Append(calls, <<"history", player_info[idx].entry>>)
    /\ UNCHANGED <<call, league_id, prompts, attempts, printed, invalid_msgs, roster,
                   gameweek_dates_for_month, result, arg, ret>>

\* the rest of get_manager_of_the_month: sorted(...), the ranks, the result
SortAndReturn ==
    /\ pc = "sort"
    /\ LET r == IF call.cls = "League" THEN League_sort_and_rank(player_info)
                ELSE FetchData_sort_and_format(player_info, call.position)
       IN  /\ player_info' = r.player_info
           /\ IF r.ret.ok THEN result' = r.ret /\ pc' = "returned" /\ error' = error
              ELSE Fails(r.ret.exc, "format") /\ result' = result
    /\ UNCHANGED <<call, league_id, prompts, attempts, printed, invalid_msgs, roster,
                   gameweek_dates_for_month, idx, calls, arg, ret>>

\* print(walrus_data.get_manager_of_the_month(10, 11, 2022)), then break
CliPrint ==
    /\ pc = "returned" /\ call.caller = "cli"
    /\ printed' = printed + 1
    /\ pc' = "done"
    /\ UNCHANGED <<call, league_id, prompts, attempts, invalid_msgs, roster,
                   gameweek_dates_for_month, player_info, idx, calls, result, error, arg, ret>>

CliCaught == {"KeyError", "JSONDecodeError"}

\* the except block without its input(): the same id is tried again
CliExceptNoInput ==
    /\ pc = "raised" /\ call.caller = "cli"
    /\ error.exc \in CliCaught
    /\ attempts < MaxAttempts
    /\ invalid_msgs' = invalid_msgs + 1
    /\ attempts' = attempts + 1
    /\ roster' = <<>> /\ gameweek_dates_for_month' = <<>> /\ player_info' = <<>>
    /\ idx' = 0 /\ calls' = <<>> /\ error' = NoError
    /\ pc' = "roster"
    /\ UNCHANGED <<call, league_id, prompts, printed, result, arg, ret>>

\* except (KeyError, json.JSONDecodeError): the message, league_id = input(), continue
CliExcept ==
    /\ pc = "raised" /\ call.caller = "cli"
    /\ error.exc \in CliCaught
    /\ attempts < MaxAttempts
    /\ invalid_msgs' = invalid_msgs + 1
    /\ \E typed \in LeagueIds : league_id' = typed
    /\ prompts' = prompts + 1
    /\ attempts' = attempts + 1
    /\ roster' = <<>> /\ gameweek_dates_for_month' = <<>> /\ player_info' = <<>>
    /\ idx' = 0 /\ calls' = <<>> /\ error' = NoError
    /\ pc' = "roster"
    /\ UNCHANGED <<call, printed, result, arg, ret>>

\* any other exception leaves the loop and ends the process
CliCrash ==
    /\ pc = "raised" /\ call.caller = "cli"
    /\ error.exc \notin CliCaught
    /\ pc' = "crashed"
    /\ UNCHANGED <<call, league_id, prompts, attempts, printed, invalid_msgs, roster,
                   gameweek_dates_for_month, player_info, idx, calls, result, error, arg, ret>>

Next ==
    \/ CliInput
    \/ CallStandings
    \/ FetchRoster
    \/ FetchSchedule
    \/ FetchHistory
    \/ SortAndReturn
    \/ CliPrint
    \/ CliExcept
    \/ CliCrash

Spec == Init /\ [][Next]_vars

\* the command-line loop alone; the interpreter goes on to print what an attempt
\* returned (a request or an input() may take as long as it takes)
NextCli ==
    \/ CliInput
    \/ FetchRoster
    \/ FetchSchedule
    \/ FetchHistory
    \/ SortAndReturn
    \/ CliPrint
    \/ CliExcept
    \/ CliCrash

InitCli ==
    /\ call = CliCall
    /\ pc = "input"
    /\ league_id = ""
    /\ prompts = 0 /\ attempts = 0 /\ printed = 0 /\ invalid_msgs = 0
    /\ roster = <<>> /\ gameweek_dates_for_month = <<>> /\ player_info = <<>> /\ idx = 0
    /\ calls = <<>> /\ result = Raise("") /\ error = NoError
    /\ arg = 0 /\ ret = Raise("")

SpecCli ==
    /\ InitCli
    /\ [][NextCli]_vars
    /\ WF_vars(CliPrint)

(***************************************************************************)
(* Claims about a report run (under Spec).                                 *)
(***************************************************************************)
Monthly == call.method = "get_manager_of_the_month"

Returned == pc \in {"returned", "done"}

Raised == pc \in {"raised", "crashed"}

\* the entries of the result: the list class League returns, the lines of the text
\* class FetchData returns
Entries == IF call.cls = "League" THEN result.val ELSE result.val.lines

\* the number an int, or the text of one, stands for
Num(v) == IF v.t = "int" THEN v.i ELSE StrToInt(v.s).val

\* the monthly score the run computed for the roster member at position m
ScoreOfMember(m) ==
    Num((CHOOSE d \in {player_info[k] : k \in 1..Len(player_info)} :
            d.entry = roster[m].entry).month_points)

\* where the stable descending sort puts roster member m: after every member with a
\* higher score and every earlier member with the same score
PlaceOfMember(m) ==
    1 + Cardinality({j \in 1..Len(roster) : ScoreOfMember(j) > ScoreOfMember(m)})
      + Cardinality({j \in 1..(m - 1) : ScoreOfMember(j) = ScoreOfMember(m)})

\* C1: get_manager_of_the_month returns the first `position` entries of the stable
\* descending sort by monthly score of the whole roster: every roster member's score is
\* computed before anything is cut, and equal scores keep roster order.
C1_TopOfWholeRoster ==
    (Monthly /\ Returned) =>
        /\ {player_info[k].entry : k \in 1..Len(player_info)}
              = {roster[m].entry : m \in 1..Len(roster)}
        /\ Len(Entries) = Min(call.position, Len(roster))
        /\ \A m \in 1..Len(roster) :
              PlaceOfMember(m) <= Len(Entries) =>
                  /\ Entries[PlaceOfMember(m)].player_name = roster[m].player_name
                  /\ Entries[PlaceOfMember(m)].entry_name = roster[m].entry_name
                  /\ Num(Entries[PlaceOfMember(m)].score) = ScoreOfMember(m)

\* C2: in every result of get_manager_of_the_month the ranks are 1, 2, ..., k in output
\* order, also when managers share a score or their names, and the score never
\* increases from one entry to the next.
C2_RanksDenseScoresDescending ==
    (Monthly /\ Returned) =>
        /\ \A k \in 1..Len(Entries) : Num(Entries[k].rank) = k
        /\ \A k \in 1..(Len(Entries) - 1) : Num(Entries[k].score) >= Num(Entries[k + 1].score)

\* two managers with the same names and the same non-zero score are both returned
C2_Witness ==
    /\ Monthly /\ Returned /\ Len(Entries) = 2
    /\ Entries[1].player_name = Entries[2].player_name
    /\ Entries[1].entry_name = Entries[2].entry_name
    /\ Num(Entries[1].score) = 100 /\ Num(Entries[2].score) = 100
    /\ Num(Entries[2].rank) = 2

\* the schedule was fetched and no gameweek falls in the month asked for
MonthIsEmpty ==
    /\ Monthly
    /\ \/ pc \in {"history", "sort", "returned", "done"}
       \/ Raised /\ error.at \in {"history", "format"}
    /\ gameweek_dates_for_month = <<>>

\* C5: when the month matches no gameweek, get_manager_of_the_month does not fail for
\* it: every monthly score is 0 (the empty list is not taken for "no filter", so nobody
\* gets a season total), and the entries come back ranked in roster order.  The
\* only failure left in class League is a failed history request.
C5_EmptyMonthScoresZero ==
    MonthIsEmpty =>
        /\ \A k \in 1..Len(player_info) :
              player_info[k].month_points # Absent => Num(player_info[k].month_points) = 0
        /\ (Raised /\ call.cls = "League") =>
              (error.at = "history" /\ error.exc \in {"Timeout", "JSONDecodeError", "KeyError"})
        /\ Returned =>
              /\ Len(Entries) = Min(call.position, Len(roster))
              /\ \A k \in 1..Len(Entries) :
                    /\ player_info[k].entry = roster[k].entry
                    /\ Entries[k].player_name = roster[k].player_name
                    /\ Entries[k].entry_name = roster[k].entry_name
                    /\ Num(Entries[k].score) = 0
                    /\ Num(Entries[k].rank) = k

\* a month without gameweeks, a roster of two, both returned by class League
C5_Witness ==
    /\ MonthIsEmpty /\ Returned /\ call.cls = "League"
    /\ Len(roster) = 2 /\ Len(Entries) = 2
    /\ roster[1].entry = 2 /\ roster[1].player_name # roster[2].player_name

\* C6: get_league_standings and get_manager_of_the_month return no entry with
\* position = 0, exactly `position` entries with 0 < position <= roster size, one entry
\* per roster member with a larger position, and raise nothing (once every request has
\* been answered).
C6_LimitGivesCount ==
    /\ Returned => Len(Entries) = Min(call.position, Len(roster))
    /\ Raised => error.at \in {"roster", "schedule", "history"}

\* C7: in the command-line loop only a failed roster request leads to the "invalid
\* league id" message and a new prompt; a failed schedule or history request ends the
\* run and never has the league id asked again.
C7_OnlyRosterFailureReprompts ==
    [][(call.caller = "cli" /\ pc = "raised" /\ error.at # "roster")
          => (pc' = "crashed" /\ prompts' = prompts /\ invalid_msgs' = invalid_msgs)]_vars

\* C10: a get_manager_of_the_month that returns has made, in this order, one roster
\* request, one schedule request and one history request per member of the whole
\* roster in roster order, whatever `position` is, and nothing else.
C10_CallsInOrder ==
    (Monthly /\ Returned) =>
        calls = <<<<"standings", league_id>>, <<"bootstrap", "">>>>
                  \o [m \in 1..Len(roster) |-> <<"history", roster[m].entry>>]

Range(s) == {s[k] : k \in 1..Len(s)}

RECURSIVE SumOverSet(_, _)
SumOverSet(S, f) ==
    IF S = {} THEN 0
    ELSE LET x == CHOOSE z \in S : TRUE IN f[x] + SumOverSet(S \ {x}, f)

PointsDone == pc = "points_done" /\ arg.body.kind = "json"

\* a non-empty filter of gameweek ids >= 1
IsFilterSet(gameweek) == gameweek # <<>> /\ \A g \in Range(gameweek) : g >= 1

\* C3: with a non-empty filter set G of gameweek ids >= 1, get_gameweek_points returns
\* (and does not raise) the sum of `points` over exactly the records of the history
\* whose gameweek is in G: a gameweek of G absent from the history adds nothing, and
\* the result is 0 when no record matches.
C3_PointsForIsSumOverFilter ==
    (PointsDone /\ IsFilterSet(arg.gameweek)) =>
        LET H == arg.body.rows
            G == Range(arg.gameweek)
            matching == {k \in 1..Len(H) : H[k].event \in G}
        IN  /\ ret.ok
            /\ ret.val = SumOverSet(matching, [k \in 1..Len(H) |-> H[k].points])
            /\ (matching = {} => ret.val = 0)

\* a history of two records, one in the filter and one not, and a gameweek of the
\* filter that the history lacks
C3_Witness ==
    /\ PointsDone /\ IsFilterSet(arg.gameweek)
    /\ Len(arg.body.rows) = 2
    /\ arg.body.rows[1].event \notin Range(arg.gameweek)
    /\ arg.body.rows[2].event \in Range(arg.gameweek)
    /\ \E g \in Range(arg.gameweek) : \A k \in 1..2 : arg.body.rows[k].event # g
    /\ arg.body.rows[1].points = 2 /\ arg.body.rows[2].points = -1
    /\ ret.ok /\ ret.val = -1

\* C8: when the upstream has no history for the manager (the list is missing or
\* empty), get_gameweek_points raises, with a filter and with the no-filter sentinel
\* alike, and never returns a score.
C8_NoHistoryRaises ==
    (pc = "points_done" /\ arg.body.kind \in {"json", "nokey"} /\ arg.body.rows = <<>>)
        => ~ret.ok

(***************************************************************************)
(* Claims about get_gameweeks_for_month (under SpecCalendar).              *)
(***************************************************************************)
CalendarDone ==
    /\ pc = "calendar_done" /\ arg.body.kind = "json"
    /\ \A k \in 1..Len(arg.body.rows) : arg.body.rows[k] # NoneText

\* an int or str argument as text of at least `width` digits
TextOf(x, width) ==
    LET text == IF x.t = "str" THEN x.s ELSE NatToStr(x.i)
    IN  IF Len(text) < width THEN [k \in 1..(width - Len(text)) |-> "0"] \o text ELSE text

\* the deadline, as text, starts with the year and month asked for
FallsIn(deadline, month, year) ==
    SubSeq(deadline, 1, 7) = TextOf(year, 4) \o <<"-">> \o TextOf(month, 2)

\* C4: for a schedule of deadlines (gameweek id = position, from 1) and a (month, year),
\* get_gameweeks_for_month returns exactly the ids of the gameweeks whose deadline falls
\* in that month and year, strictly ascending without duplicates, and the empty list
\* when there is none.
C4_ResolveIsExactAscending ==
    CalendarDone =>
        /\ ret.ok
        /\ Range(ret.val) = {k \in 1..Len(arg.body.rows) :
                                FallsIn(arg.body.rows[k], arg.month, arg.year)}
        /\ \A k \in 1..(Len(ret.val) - 1) : ret.val[k] < ret.val[k + 1]

\* gameweeks 1 and 3 of three fall in the month, which is given as a str; gameweek 2 is
\* in the same month of another year
C4_Witness ==
    /\ CalendarDone /\ Len(arg.body.rows) = 3
    /\ arg.month.t = "str" /\ arg.body.rows[2] = IsoDate(2023, 11, 4)
    /\ ret.ok /\ ret.val = <<1, 3>>

====
